---------------------------- MODULE Spec2Model ----------------------------
(***************************************************************************)
(* Model of src/main.cpp (black-hole renderer): the orbit camera and its   *)
(* input handlers, the global gravity flag, the in-place N-body step of    *)
(* the frame loop, and the per-frame compute dispatch with its uniform     *)
(* buffer uploads.                                                         *)
(*                                                                         *)
(* Numbers.  The source computes in float/double; the model computes in    *)
(* integers of a fixed unit per quantity:                                  *)
(*   angles     1 unit = 1e-5 rad   (PI = 314159, 0.01f = 1000)            *)
(*   cursor     1 unit = 1 pixel                                           *)
(*   radius     1 unit = 1e9 m      (camera radius, zoom speed)            *)
(*   bodies     1 unit = 1e10 m, one frame is the time unit, and a body's  *)
(*              mass is given in the unit for which G = 1.                 *)
(* Float rounding is not modelled; a quotient is truncated toward zero     *)
(* (sign-symmetric, as float rounding is).                                 *)
(***************************************************************************)
EXTENDS Integers, Sequences, FiniteSets, TLC

----------------------------------------------------------------------------
(* Program constants (model units).                                        *)

PI == 314159

EPS == 1000

G == 1

radius0 == 138

minRadius == 10

maxRadius == 1000

azimuth0 == -235000

elevation0 == 150000

orbitSpeed == 1000

zoomSpeed == 25

COMPUTE_WIDTH == 200

COMPUTE_HEIGHT == 150

MaxUBOObjects == 16

gridSize == 25

(* Bounds of the model.                                                    *)

\* integration steps a run may perform
MaxSteps == 2

\* the azimuth may drift this many cursor spans away from its initial value
MaxAzSpans == 1

\* longest body list handed to uploadObjectsUBO
MaxBodies == 18

\* largest grid size for which the index buffer is built in full
MaxGrid == 4

\* square images of side 1..MaxDim are dispatched, besides the program's own
MaxDim == 48

(* Inputs the environment may deliver.                                     *)

\* pointer positions <<x, y>>
Cursors == {<<0, 0>>, <<200, 0>>, <<0, 200>>}

ScrollAmounts == {-40, 20}

Buttons == {"LEFT", "MIDDLE", "RIGHT"}

ButtonActions == {"PRESS", "RELEASE"}

Keys == {"G", "OTHER"}

KeyActions == {"PRESS", "RELEASE", "REPEAT"}

----------------------------------------------------------------------------
VARIABLES
    radius, azimuth, elevation,     \* Camera: spherical coordinates
    dragging, panning, moving,      \* Camera: interaction flags
    lastX, lastY,                   \* Camera: last recorded pointer position
    g_gravity,                      \* global gravity-simulation flag
    objects,                        \* std::vector<ObjectData> objects
    texW, texH,                     \* dimensions of the output texture
    groupsX, groupsY,               \* work groups of the last dispatch
    cameraUBO,                      \* camera block (movement flag)
    objectsUBO,                     \* objects block as uploaded
    staleUBO,                       \* contents of uploadObjectsUBO's local struct before its loop
    gridIndexCount,                 \* Engine::gridIndexCount
    gpuLog,                         \* GPU commands issued since the frame began, in order
    gridN,                          \* generateGrid's gridSize
    gridEBO,                        \* the index buffer generateGrid uploads (<<>>: not tracked)
    pc,                             \* position in main's frame loop
    steps,                          \* integration steps performed so far
    lastOp                          \* the handler or frame phase that ran last

camVars == <<radius, azimuth, elevation, dragging, panning, moving, lastX, lastY>>

gpuVars == <<texW, texH, groupsX, groupsY, cameraUBO, objectsUBO, staleUBO, gridIndexCount,
             gridN, gridEBO>>

engineVars == <<gpuVars, gpuLog>>

vars == <<radius, azimuth, elevation, dragging, panning, moving, lastX, lastY,
          g_gravity, objects, texW, texH, groupsX, groupsY, cameraUBO,
          objectsUBO, staleUBO, gridIndexCount, gpuLog, gridN, gridEBO,
          pc, steps, lastOp>>

----------------------------------------------------------------------------
(* Helpers.                                                                *)

Clamp(v, lo, hi) == IF v < lo THEN lo ELSE IF hi < v THEN hi ELSE v

Min(a, b) == IF b < a THEN b ELSE a

\* division truncating toward zero
TDiv(a, b) == IF a >= 0 THEN a \div b ELSE -((-a) \div b)

FloorDiv(a, b) == a \div b

\* std::ceil(a / b) for a >= 0, b > 0
CeilDiv(a, b) == IF a % b = 0 THEN a \div b ELSE (a \div b) + 1

\* floor of the square root
ISqrt(n) == CHOOSE r \in 0..n : r * r <= n /\ n < (r + 1) * (r + 1)

----------------------------------------------------------------------------
(* Camera (src/main.cpp 35-137).                                           *)

\* Camera::update
Update(drag, pan) == drag \/ pan

\* the elevation an orbiting pointer move of dy pixels leaves
OrbitElevationUnclamped(elev, dy) == elev - dy * orbitSpeed

OrbitElevation(elev, dy) == Clamp(elev - dy * orbitSpeed, EPS, PI - EPS)

\* the azimuth an orbiting pointer move of dx pixels leaves
OrbitAzimuth(az, dx) == az + dx * orbitSpeed

\* the elevation Camera::position() uses
ClampedElevation == Clamp(elevation, EPS, PI - EPS)

ProcessMouseMoveAlwaysOrbit(x, y) ==
    /\ azimuth' = OrbitAzimuth(azimuth, x - lastX)
    /\ elevation' = OrbitElevation(elevation, y - lastY)
    /\ lastX' = x
    /\ lastY' = y
    /\ moving' = Update(dragging, panning)
    /\ UNCHANGED <<radius, dragging, panning, g_gravity>>

ProcessMouseMove(x, y) ==
    /\ IF dragging /\ panning
          THEN UNCHANGED <<azimuth, elevation>>
          ELSE IF dragging /\ ~panning
                 THEN /\ azimuth' = OrbitAzimuth(azimuth, x - lastX)
                      /\ elevation' = OrbitElevation(elevation, y - lastY)
                 ELSE UNCHANGED <<azimuth, elevation>>
    /\ lastX' = x
    /\ lastY' = y
    /\ moving' = Update(dragging, panning)
    /\ UNCHANGED <<radius, dragging, panning, g_gravity>>

\* the gravity flag after a right-button event
RightButtonGravityToggle(action, g) == IF action = "PRESS" THEN ~g ELSE g

RightButtonGravity(action, g) ==
    IF action = "PRESS" THEN TRUE
    ELSE IF action = "RELEASE" THEN FALSE
    ELSE g

\* cx, cy: what glfwGetCursorPos reports
ProcessMouseButton(button, action, cx, cy) ==
    /\ IF button = "LEFT" \/ button = "MIDDLE"
          THEN IF action = "PRESS"
                 THEN /\ dragging' = TRUE
                      /\ panning' = FALSE
                      /\ lastX' = cx
                      /\ lastY' = cy
                 ELSE IF action = "RELEASE"
                        THEN /\ dragging' = FALSE
                             /\ panning' = FALSE
                             /\ UNCHANGED <<lastX, lastY>>
                        ELSE UNCHANGED <<dragging, panning, lastX, lastY>>
          ELSE UNCHANGED <<dragging, panning, lastX, lastY>>
    /\ IF button = "RIGHT"
          THEN g_gravity' = RightButtonGravity(action, g_gravity)
          ELSE UNCHANGED g_gravity
    /\ UNCHANGED <<radius, azimuth, elevation, moving>>

ScrollRadiusUnclamped(r, yoffset) == r - yoffset * zoomSpeed

ScrollRadius(r, yoffset) == Clamp(r - yoffset * zoomSpeed, minRadius, maxRadius)

ProcessScroll(xoffset, yoffset) ==
    /\ radius' = ScrollRadius(radius, yoffset)
    /\ moving' = Update(dragging, panning)
    /\ UNCHANGED <<azimuth, elevation, dragging, panning, lastX, lastY, g_gravity>>

ProcessKey(key, action) ==
    /\ IF action = "PRESS" /\ key = "G"
          THEN g_gravity' = ~g_gravity
          ELSE UNCHANGED g_gravity
    /\ UNCHANGED camVars

----------------------------------------------------------------------------
(* Bodies (src/main.cpp 167-179) and the gravity loop of main (733-758).   *)

ZeroVec == <<0, 0, 0>>

Body(pos, w, col, m, vel) ==
    [posRadius |-> <<pos[1], pos[2], pos[3], w>>, color |-> col, mass |-> m, velocity |-> vel]

\* the initial body list: two equal bodies on the +x and +z axes at the same
\* distance, and the heavier central attractor at the origin, listed last
objects0 ==
    << Body(<<40, 0, 0>>, 4, <<1, 1, 0, 1>>, 1600, ZeroVec),
       Body(<<0, 0, 40>>, 4, <<1, 0, 0, 1>>, 1600, ZeroVec),
       Body(ZeroVec, 1, <<0, 0, 0, 1>>, 6400, ZeroVec) >>

\* index of the central attractor in objects0
Attractor == 3

Vec3(p) == <<p[1], p[2], p[3]>>

VAdd(a, b) == <<a[1] + b[1], a[2] + b[2], a[3] + b[3]>>

VSub(a, b) == <<a[1] - b[1], a[2] - b[2], a[3] - b[3]>>

\* glm::length
Length(v) == ISqrt(v[1] * v[1] + v[2] * v[2] + v[3] * v[3])

\* what obj2 adds to obj's totalAcc: direction * (force / obj.mass), zero at distance 0
Contribution(obj, obj2) ==
    LET delta == VSub(Vec3(obj2.posRadius), Vec3(obj.posRadius))
        distance == Length(delta)
        cube == distance * distance * distance
    IN  IF distance > 0
          THEN <<TDiv(delta[1] * G * obj2.mass, cube),
                 TDiv(delta[2] * G * obj2.mass, cube),
                 TDiv(delta[3] * G * obj2.mass, cube)>>
          ELSE ZeroVec

\* the inner loop: totalAcc of body i over bodies j..Len(objs), skipping itself
RECURSIVE TotalAcc(_, _, _)
TotalAcc(objs, i, j) ==
    IF j > Len(objs) THEN ZeroVec
    ELSE IF j = i THEN TotalAcc(objs, i, j + 1)
    ELSE VAdd(Contribution(objs[i], objs[j]), TotalAcc(objs, i, j + 1))

\* one pass of the outer loop's body: velocity += totalAcc, position += velocity
StepBody(objs, i) ==
    LET v == VAdd(objs[i].velocity, TotalAcc(objs, i, 1))
        p == objs[i].posRadius
    IN  [objs EXCEPT ![i].velocity = v,
                     ![i].posRadius = <<p[1] + v[1], p[2] + v[2], p[3] + v[3], p[4]>>]

\* the outer loop from body i on: each body is updated in place, so the
\* bodies after it see its new position
RECURSIVE GravityLoop(_, _)
GravityLoop(objs, i) ==
    IF i > Len(objs) THEN objs ELSE GravityLoop(StepBody(objs, i), i + 1)

----------------------------------------------------------------------------
(* Engine (src/main.cpp 181-681).                                          *)

Slots == 0..(MaxUBOObjects - 1)

\* possible contents of memory nobody has written: all zero, or a pattern
ZeroUBO ==
    [numObjects |-> 0,
     posRadius |-> [i \in Slots |-> <<0, 0, 0, 0>>],
     color |-> [i \in Slots |-> <<0, 0, 0, 0>>],
     mass |-> [i \in Slots |-> 0]]

JunkUBO ==
    [numObjects |-> -1,
     posRadius |-> [i \in Slots |-> <<7, 7, 7, 7>>],
     color |-> [i \in Slots |-> <<7, 7, 7, 7>>],
     mass |-> [i \in Slots |-> 7]]

Uninit == {ZeroUBO, JunkUBO}

UploadObjectsUBONoCap(objs, stale) ==
    LET count == Len(objs)
    IN  [numObjects |-> count,
         posRadius |-> [i \in Slots |-> IF i < count THEN objs[i + 1].posRadius ELSE stale.posRadius[i]],
         color |-> [i \in Slots |-> IF i < count THEN objs[i + 1].color ELSE stale.color[i]],
         mass |-> [i \in Slots |-> IF i < count THEN objs[i + 1].mass ELSE stale.mass[i]]]

\* the struct uploadObjectsUBO sends; stale is what its local held before the loop
UploadObjectsUBO(objs, stale) ==
    LET count == Min(Len(objs), MaxUBOObjects)
    IN  [numObjects |-> count,
         posRadius |-> [i \in Slots |-> IF i < count THEN objs[i + 1].posRadius ELSE stale.posRadius[i]],
         color |-> [i \in Slots |-> IF i < count THEN objs[i + 1].color ELSE stale.color[i]],
         mass |-> [i \in Slots |-> IF i < count THEN objs[i + 1].mass ELSE stale.mass[i]]]

\* the struct uploadCameraUBO sends: of its fields the movement flag is modelled
UploadCameraUBO == [moving |-> dragging \/ panning]

\* target compute resolution
ComputeWidth(mov) == IF mov THEN COMPUTE_WIDTH ELSE 200

ComputeHeight(mov) == IF mov THEN COMPUTE_HEIGHT ELSE 150

workGroupSize == 16

\* the GL calls of dispatchCompute that write, run and fence, in program order
DispatchCommandsNoBarrier ==
    <<"glTexImage2D", "uploadCameraUBO", "uploadDiskUBO", "uploadObjectsUBO",
      "glDispatchCompute">>

DispatchCommands ==
    <<"glTexImage2D", "uploadCameraUBO", "uploadDiskUBO", "uploadObjectsUBO",
      "glDispatchCompute", "glMemoryBarrier">>

\* steps 1) to 5) of dispatchCompute for the selected resolution cw x ch
Dispatch(cw, ch) ==
    /\ pc = "compute"
    /\ texW' = cw
    /\ texH' = ch
    /\ cameraUBO' = UploadCameraUBO
    /\ \E stale \in Uninit :
          /\ staleUBO' = stale
          /\ objectsUBO' = UploadObjectsUBO(objects, stale)
    /\ groupsX' = CeilDiv(cw, workGroupSize)
    /\ groupsY' = CeilDiv(ch, workGroupSize)
    /\ gpuLog' = gpuLog \o DispatchCommands
    /\ pc' = "draw"
    /\ lastOp' = <<"dispatchCompute">>
    /\ UNCHANGED <<camVars, g_gravity, objects, gridIndexCount, gridN, gridEBO, steps>>

DispatchCompute == Dispatch(ComputeWidth(moving), ComputeHeight(moving))

\* dispatchCompute with its target resolution any pair <<cw, ch>> of Dims
Dims == {<<d, d>> : d \in 1..MaxDim} \cup {<<COMPUTE_WIDTH, COMPUTE_HEIGHT>>}

DispatchComputeDims == \E dim \in Dims : Dispatch(dim[1], dim[2])

\* index of grid vertex (x, z) in the vertex buffer: rows of z, x running fastest
VertexIndex(N, x, z) == z * (N + 1) + x

\* number of vertices generateGrid emits for grid size N
GridVertexCount(N) == (N + 1) * (N + 1)

\* the index list generateGrid builds for grid size N: for z in 0..N-1, for x
\* in 0..N-1, with i the index of vertex (x, z), it pushes i, i+1, i, i+N+1
GridIndices(N) ==
    [k \in 1..(4 * N * N) |->
        LET cell == (k - 1) \div 4
            i == VertexIndex(N, cell % N, cell \div N)
            r == (k - 1) % 4
        IN  IF r = 1 THEN i + 1 ELSE IF r = 3 THEN i + N + 1 ELSE i]

\* generateGrid and drawGrid, the program's grid: of the index buffer only the
\* length is kept
GenerateGrid ==
    /\ pc = "grid"
    /\ gridIndexCount' = 4 * gridSize * gridSize
    /\ pc' = "compute"
    /\ lastOp' = <<"generateGrid">>
    /\ gpuLog' = Append(gpuLog, "drawGrid")
    /\ UNCHANGED <<camVars, g_gravity, objects, texW, texH, groupsX, groupsY,
                   cameraUBO, objectsUBO, staleUBO, gridN, gridEBO, steps>>

\* generateGrid and drawGrid for grid size gridN, the index buffer kept in full
GenerateGridMesh ==
    /\ pc = "grid"
    /\ gridEBO' = GridIndices(gridN)
    /\ gridIndexCount' = Len(GridIndices(gridN))
    /\ pc' = "compute"
    /\ lastOp' = <<"generateGrid">>
    /\ gpuLog' = Append(gpuLog, "drawGrid")
    /\ UNCHANGED <<camVars, g_gravity, objects, texW, texH, groupsX, groupsY,
                   cameraUBO, objectsUBO, staleUBO, gridN, steps>>

\* the quad is drawn with the output texture bound: the image is read here
DrawFullScreenQuad ==
    /\ pc = "draw"
    /\ gpuLog' = Append(gpuLog, "readImage")
    /\ pc' = "poll"
    /\ lastOp' = <<"drawFullScreenQuad">>
    /\ UNCHANGED <<camVars, g_gravity, objects, gpuVars, steps>>

----------------------------------------------------------------------------
(* main (src/main.cpp 706-782).                                            *)

GravitySimulationAlways ==
    /\ pc = "sim"
    /\ steps < MaxSteps
    /\ objects' = GravityLoop(objects, 1)
    /\ steps' = steps + 1
    /\ gpuLog' = <<>>
    /\ pc' = "grid"
    /\ lastOp' = <<"gravity">>
    /\ UNCHANGED <<camVars, g_gravity, gpuVars>>

\* the loop head found the window open: a frame begins (glClear), then the
\* gravity block of the frame
GravitySimulation ==
    /\ pc = "sim"
    /\ IF g_gravity
          THEN /\ steps < MaxSteps
               /\ objects' = GravityLoop(objects, 1)
               /\ steps' = steps + 1
          ELSE UNCHANGED <<objects, steps>>
    /\ gpuLog' = <<>>
    /\ pc' = "grid"
    /\ lastOp' = <<"gravity">>
    /\ UNCHANGED <<camVars, g_gravity, gpuVars>>

\* the loop head found glfwWindowShouldClose
CloseWindow ==
    /\ pc = "sim"
    /\ pc' = "done"
    /\ lastOp' = <<"close">>
    /\ UNCHANGED <<camVars, g_gravity, objects, engineVars, steps>>

(* glfwPollEvents runs the callbacks of the pending events, then returns.  *)

AzimuthInBounds(az) ==
    /\ az - azimuth0 <= MaxAzSpans * 200 * orbitSpeed
    /\ azimuth0 - az <= MaxAzSpans * 200 * orbitSpeed

\* glfwGetCursorPos is asked only on a left or middle press, and reports
\* wherever the pointer is by then
CursorReports(b, a) ==
    IF (b = "LEFT" \/ b = "MIDDLE") /\ a = "PRESS" THEN Cursors ELSE {<<lastX, lastY>>}

MouseMoveEvent ==
    /\ pc = "poll"
    /\ \E c \in Cursors :
          /\ ProcessMouseMove(c[1], c[2])
          /\ AzimuthInBounds(azimuth')
    /\ lastOp' = <<"processMouseMove">>
    /\ UNCHANGED <<objects, engineVars, pc, steps>>

MouseButtonEvent ==
    /\ pc = "poll"
    /\ \E b \in Buttons, a \in ButtonActions :
          \E c \in CursorReports(b, a) :
             /\ ProcessMouseButton(b, a, c[1], c[2])
             /\ lastOp' = <<"processMouseButton", b, a>>
    /\ UNCHANGED <<objects, engineVars, pc, steps>>

ScrollEvent ==
    /\ pc = "poll"
    /\ \E yoffset \in ScrollAmounts : ProcessScroll(0, yoffset)
    /\ lastOp' = <<"processScroll">>
    /\ UNCHANGED <<objects, engineVars, pc, steps>>

KeyEvent ==
    /\ pc = "poll"
    /\ \E k \in Keys, a \in KeyActions :
          /\ ProcessKey(k, a)
          /\ lastOp' = <<"processKey">>
    /\ UNCHANGED <<objects, engineVars, pc, steps>>

EndPoll ==
    /\ pc = "poll"
    /\ pc' = "sim"
    /\ lastOp' = <<"pollEvents">>
    /\ UNCHANGED <<camVars, g_gravity, objects, engineVars, steps>>

----------------------------------------------------------------------------
(* Specifications.                                                         *)

InitCamera ==
    /\ radius = radius0
    /\ azimuth = azimuth0
    /\ elevation = elevation0
    /\ dragging = FALSE
    /\ panning = FALSE
    /\ moving = FALSE
    /\ lastX = 0
    /\ lastY = 0

\* the buffers are allocated without contents and are not read before the
\* first frame's uploads
InitEngine ==
    /\ texW = COMPUTE_WIDTH
    /\ texH = COMPUTE_HEIGHT
    /\ groupsX = 0
    /\ groupsY = 0
    /\ cameraUBO = [moving |-> FALSE]
    /\ objectsUBO = ZeroUBO
    /\ staleUBO = ZeroUBO
    /\ gridIndexCount = 0
    /\ gpuLog = <<>>
    /\ gridEBO = <<>>
    /\ pc = "sim"
    /\ steps = 0
    /\ lastOp = <<"init">>

Init ==
    /\ InitCamera
    /\ InitEngine
    /\ gridN = gridSize
    /\ g_gravity = FALSE
    /\ objects = objects0

Frame ==
    \/ GravitySimulation
    \/ GenerateGrid
    \/ DispatchCompute
    \/ DrawFullScreenQuad
    \/ EndPoll
    \/ CloseWindow

Next ==
    \/ Frame
    \/ MouseMoveEvent
    \/ MouseButtonEvent
    \/ ScrollEvent
    \/ KeyEvent

Spec == Init /\ [][Next]_vars

(* A closed system of two equal bodies placed symmetrically about the      *)
(* origin, with opposite initial velocities along their axis, gravity on   *)
(* and no input events.                                                    *)

Scale(k, v) == <<k * v[1], k * v[2], k * v[3]>>

Axes == {<<1, 0, 0>>, <<0, 0, 1>>, <<1, 0, 1>>}

TwoBodySystems ==
    { << Body(Scale(-d, ax), 1, <<1, 1, 0, 1>>, m, Scale(s, ax)),
         Body(Scale(d, ax), 1, <<1, 0, 0, 1>>, m, Scale(-s, ax)) >> :
        ax \in Axes, d \in {4, 5, 6}, m \in {100, 200}, s \in {-1, 0, 1} }

InitTwoBody ==
    /\ InitCamera
    /\ InitEngine
    /\ gridN = gridSize
    /\ g_gravity = TRUE
    /\ objects \in TwoBodySystems

SpecTwoBody == InitTwoBody /\ [][Frame]_vars

(* Body lists of every length up to MaxBodies, pairwise distinct bodies,   *)
(* gravity off and no input events.                                        *)

BodyLists ==
    { [i \in 1..n |-> Body(<<k * i, 0, i>>, i, <<i % 2, k, 0, 1>>, 100 + i, ZeroVec)] :
        n \in 0..MaxBodies, k \in 1..2 }

InitPack ==
    /\ InitCamera
    /\ InitEngine
    /\ gridN = gridSize
    /\ g_gravity = FALSE
    /\ objects \in BodyLists

SpecPack == InitPack /\ [][Frame]_vars

(* generateGrid for every grid size up to MaxGrid, over the body lists     *)
(* above, gravity off and no input events.                                 *)

InitGrid ==
    /\ InitCamera
    /\ InitEngine
    /\ gridN \in 1..MaxGrid
    /\ g_gravity = FALSE
    /\ objects \in BodyLists

FrameMesh ==
    \/ GravitySimulation
    \/ GenerateGridMesh
    \/ DispatchCompute
    \/ DrawFullScreenQuad
    \/ EndPoll
    \/ CloseWindow

SpecGrid == InitGrid /\ [][FrameMesh]_vars

(* The frame loop with the target resolution drawn from Dims, the         *)
(* program's bodies, gravity off and no input events.                      *)

FrameDims ==
    \/ GravitySimulation
    \/ GenerateGrid
    \/ DispatchComputeDims
    \/ DrawFullScreenQuad
    \/ EndPoll
    \/ CloseWindow

SpecDims == Init /\ [][FrameDims]_vars

----------------------------------------------------------------------------
(* Claims.                                                                 *)

CameraMutators == {"processMouseMove", "processMouseButton", "processScroll", "processKey"}

RightPress == <<"processMouseButton", "RIGHT", "PRESS">>

RightRelease == <<"processMouseButton", "RIGHT", "RELEASE">>

\* C1: after every camera mutator, moving equals (dragging OR panning).
C1_MovingIsDraggingOrPanning ==
    lastOp[1] \in CameraMutators => moving = (dragging \/ panning)

\* C2: the dispatch selects the full pair (COMPUTE_WIDTH, COMPUTE_HEIGHT) when
\* moving is false and a pair strictly smaller in width and height when
\* moving is true.
C2_ResolutionFollowsMoving ==
    pc = "draw" =>
        IF moving
          THEN texW < COMPUTE_WIDTH /\ texH < COMPUTE_HEIGHT
          ELSE texW = COMPUTE_WIDTH /\ texH = COMPUTE_HEIGHT

\* C3: for two equal bodies placed symmetrically about the origin with
\* opposite initial velocities, after the first integration step and every
\* later one the velocities are equal in magnitude and opposite (total
\* momentum zero) and the centre of mass is at the origin.
C3_SymmetricVelocities ==
    steps >= 1 =>
        /\ VAdd(objects[1].velocity, objects[2].velocity) = ZeroVec
        /\ VAdd(Vec3(objects[1].posRadius), Vec3(objects[2].posRadius)) = ZeroVec

\* C4: the central attractor's entry stays at the origin in every reachable
\* state.
C4_AttractorAtOrigin == Vec3(objects[Attractor].posRadius) = ZeroVec

\* C5: after any sequence of input events the stored elevation lies in
\* [0.01, pi - 0.01], so the elevation position() uses is the stored one and
\* lies strictly between 0 and pi (its sine is not zero).
C5_ElevationInRange ==
    /\ EPS <= elevation
    /\ elevation <= PI - EPS
    /\ ClampedElevation = elevation
    /\ 0 < ClampedElevation
    /\ ClampedElevation < PI

\* C5 witness: an orbiting pointer move has driven the elevation to a limit.
C5_Witness ==
    /\ lastOp = <<"processMouseMove">>
    /\ dragging
    /\ elevation \in {EPS, PI - EPS}

\* C6: after any sequence of scrolls and other input events, radius lies in
\* [minRadius, maxRadius].
C6_RadiusInRange == minRadius <= radius /\ radius <= maxRadius

\* C6 witness: a scroll has driven the radius to a limit.
C6_Witness == lastOp = <<"processScroll">> /\ radius \in {minRadius, maxRadius}

\* C7: for a body list of length n, the uploaded block has count = min(n, 16),
\* slots 0..count-1 hold bodies 0..count-1 in list order, slots count..15 are
\* left as they were, and no body of index 16 or more is in a written slot.
C7_Packing ==
    pc = "draw" =>
        LET n == Len(objects)
            count == IF n <= 16 THEN n ELSE 16
        IN  /\ objectsUBO.numObjects = count
            /\ \A i \in 0..15 :
                 IF i < count
                   THEN /\ objectsUBO.posRadius[i] = objects[i + 1].posRadius
                        /\ objectsUBO.color[i] = objects[i + 1].color
                        /\ objectsUBO.mass[i] = objects[i + 1].mass
                   ELSE /\ objectsUBO.posRadius[i] = staleUBO.posRadius[i]
                        /\ objectsUBO.color[i] = staleUBO.color[i]
                        /\ objectsUBO.mass[i] = staleUBO.mass[i]
            /\ \A j \in 17..n : \A i \in 0..(count - 1) :
                 objectsUBO.posRadius[i] # objects[j].posRadius

\* C7 witness: a list longer than 16 has been uploaded, truncated.
C7_Witness == pc = "draw" /\ Len(objects) > 16 /\ objectsUBO.numObjects = 16

\* C8 as claimed: each right-button press inverts the gravity flag and each
\* release leaves it unchanged.
C8_RightPressToggles ==
    [][ /\ lastOp' = RightPress => g_gravity' = ~g_gravity
        /\ lastOp' = RightRelease => g_gravity' = g_gravity ]_vars

\* C8 as amended: each right-button press sets the gravity flag and each
\* release clears it, whatever came before.
C8_RightButtonHolds ==
    /\ lastOp = RightPress => g_gravity
    /\ lastOp = RightRelease => ~g_gravity

\* C8 witness: the right button was released after frames integrated.
C8_Witness == lastOp = RightRelease /\ ~g_gravity /\ steps > 0

\* C9: no step other than the frame's gravity block with the flag set changes
\* any body: a frame whose integration point finds the flag false leaves every
\* position and velocity as it was.
C9_IntegratorOnlyWhenFlagSet ==
    [][ (pc = "sim" /\ g_gravity) \/ objects' = objects ]_vars

\* C9 witness: the gravity block has just been passed with the flag false,
\* after earlier frames integrated.
C9_Witness == pc = "grid" /\ ~g_gravity /\ steps > 0

\* C10: processMouseMove outside orbit mode leaves azimuth, elevation and
\* radius unchanged; in orbit mode (dragging, not panning) it adds
\* dx*orbitSpeed to azimuth and sets elevation to the clamped
\* elevation - dy*orbitSpeed, dx and dy measured from the last recorded
\* pointer position.
C10_MouseMoveOrbit ==
    [][ lastOp' = <<"processMouseMove">> =>
          LET dx == lastX' - lastX
              dy == lastY' - lastY
              e == elevation - dy * orbitSpeed
          IN  /\ radius' = radius
              /\ IF dragging /\ ~panning
                   THEN /\ azimuth' = azimuth + dx * orbitSpeed
                        /\ elevation' = IF e < EPS THEN EPS
                                        ELSE IF e > PI - EPS THEN PI - EPS ELSE e
                   ELSE /\ azimuth' = azimuth
                        /\ elevation' = elevation ]_vars

\* C10 witness: an orbiting move has changed both angles.
C10_Witness ==
    /\ lastOp = <<"processMouseMove">>
    /\ dragging /\ ~panning
    /\ azimuth # azimuth0
    /\ elevation \notin {elevation0, EPS, PI - EPS}

IsEvent(op) == op[1] \in CameraMutators

\* C11: in every frame the buffers are written, then the compute dispatch is
\* issued, then the memory barrier, then the image is read; the image is never
\* read before the frame's dispatch and barrier, and in no state is a dispatch
\* issued with its barrier still to come, so no input event or integration
\* step runs between the two.
C11_FrameOrder ==
    /\ \A i \in 1..Len(gpuLog) :
          gpuLog[i] = "readImage" =>
              \E j \in 1..(i - 1), k \in 1..(i - 1) :
                  /\ j < k
                  /\ gpuLog[j] = "glDispatchCompute"
                  /\ gpuLog[k] = "glMemoryBarrier"
    /\ \A i \in 1..Len(gpuLog) :
          gpuLog[i] = "glDispatchCompute" =>
              /\ i < Len(gpuLog)
              /\ gpuLog[i + 1] = "glMemoryBarrier"
              /\ \A w \in {"uploadCameraUBO", "uploadDiskUBO", "uploadObjectsUBO"} :
                    \E j \in 1..(i - 1) : gpuLog[j] = w
    /\ pc = "poll" => Len(gpuLog) > 0 /\ gpuLog[Len(gpuLog)] = "readImage"
    /\ (IsEvent(lastOp) \/ lastOp = <<"gravity">>) =>
          Cardinality({i \in 1..Len(gpuLog) : gpuLog[i] = "glDispatchCompute"})
            = Cardinality({i \in 1..Len(gpuLog) : gpuLog[i] = "glMemoryBarrier"})

\* C11 witness: an input event is handled after the frame's dispatch, barrier
\* and image read.
C11_Witness ==
    /\ IsEvent(lastOp)
    /\ Len(gpuLog) > 0
    /\ gpuLog[Len(gpuLog)] = "readImage"

\* the line segments of the index buffer, as pairs of vertex indices
Segments == {<<gridEBO[2 * k - 1], gridEBO[2 * k]>> : k \in 1..(Len(gridEBO) \div 2)}

\* the segments the claim lists: right neighbour when x < N, below when z < N
WireSegments(N) ==
    {<<VertexIndex(N, x, z), VertexIndex(N, x + 1, z)>> : x \in 0..(N - 1), z \in 0..N}
      \cup {<<VertexIndex(N, x, z), VertexIndex(N, x, z + 1)>> : x \in 0..N, z \in 0..(N - 1)}

\* C12: the index list of the (N+1)x(N+1) grid holds a segment from every
\* vertex (x, z) to its right neighbour when x < N and to its below neighbour
\* when z < N, no other segment, and every index is below (N+1)^2.
C12_WireframeComplete ==
    lastOp = <<"generateGrid">> =>
        /\ Segments = WireSegments(gridN)
        /\ \A k \in 1..Len(gridEBO) : gridEBO[k] < GridVertexCount(gridN)

\* C13: for every dispatched image dimension d >= 1 and work-group extent 16,
\* the work-group count g of that axis satisfies (g - 1) * 16 < d <= g * 16.
C13_GroupsCoverImage ==
    pc = "draw" =>
        /\ texW >= 1 /\ texH >= 1
        /\ (groupsX - 1) * 16 < texW /\ texW <= groupsX * 16
        /\ (groupsY - 1) * 16 < texH /\ texH <= groupsY * 16

\* C13 witness: a dispatch of the program's 200 x 150 image (neither a
\* multiple of 16) and one of a width that is a multiple of 16.
C13_Witness ==
    /\ pc = "draw"
    /\ \/ texW = COMPUTE_WIDTH /\ texH = COMPUTE_HEIGHT /\ groupsX = 13 /\ groupsY = 10
       \/ texW = 32 /\ groupsX = 2

\* C14: in every dispatch the movement flag written into the camera block
\* equals the camera.moving flag the same dispatch selected the resolution by.
C14_UploadedFlagIsMoving == pc = "draw" => cameraUBO.moving = moving

=============================================================================
